---- MODULE Spec2Model ----
(***************************************************************************)
(* A model of the task manager of src/task_manager.py: the Task entity,    *)
(* the TaskManager store (add / list / complete / delete) and its whole-   *)
(* file JSON persistence (save_tasks / load_tasks).                        *)
(*                                                                         *)
(* The backing file is modelled by what json.load makes of it: absent,     *)
(* unreadable (json.load or open raises), or a JSON array of objects.      *)
(* A JSON object is a record whose DOMAIN is its key set, so a missing key *)
(* is a missing field.  A Python value used as an id is tagged with its    *)
(* type, because the file may hold null where the store writes integers.   *)
(* datetime.now() is an input of the call that reads it: naive local time  *)
(* is not ordered, so any value of Times may follow any other.             *)
(*                                                                         *)
(* Spec     : one file, absent at first; any calls, any save outcome, and  *)
(*            later stores constructed over the same file.                 *)
(* SpecOk   : the same, every save_tasks call succeeding.                  *)
(* SpecLoad : construction alone, over files of any origin.                *)
(* SpecDup  : calls on a store constructed over a file in which two tasks  *)
(*            carry the same id, or over no file.                          *)
(* SpecRewrite : complete / delete calls and reconstruction, starting from *)
(*            a store constructed over a file of any origin.               *)
(* SpecApi  : one store over a file absent at first, its four calls and    *)
(*            direct calls of its public load_tasks and save_tasks.        *)
(***************************************************************************)
EXTENDS Integers, Sequences, FiniteSets, TLC

\* ---------------------------------------------------------------- bounds

\* add_task is not called once next_id exceeds MaxId, nor more than MaxId times
\* on one store
MaxId == 2
\* a backing file that no store wrote holds at most MaxForeignLen objects
MaxForeignLen == 2

\* the descriptions a caller passes to add_task
Descriptions == {"a", "b"}

\* the values datetime.now().isoformat() takes
Times == {0, 1}

\* the ids a caller passes to complete_task / delete_task (0 is never issued)
IdArgs == 0..MaxId

\* ---------------------------------------------------------------- values

\* a Python int
IntVal(n) == [type |-> "int", val |-> n]

\* Python None (JSON null)
NoneVal == [type |-> "none", val |-> 0]

\* task.id == task_id, for an int task_id (None == 1 is False)
IdEq(idv, n) == idv.type = "int" /\ idv.val = n

\* ---------------------------------------------------------------- Task

\* Task.__init__: created_at is the clock read at construction
Task(task_id, description, completed, now) ==
    [id |-> task_id, description |-> description,
     completed |-> completed, created_at |-> now]

\* Task.to_dict: always the four keys
to_dict(t) ==
    [id |-> t.id, description |-> t.description,
     completed |-> t.completed, created_at |-> t.created_at]

\* whether Task.from_dict raises KeyError on this JSON object
from_dict_raises(data) ==
    ~ ({"id", "description", "completed"} \subseteq DOMAIN data)

\* Task.from_dict without line 42: created_at is always the clock
from_dict_now(data, now) ==
    Task(data.id, data.description, data.completed, now)

\* Task.from_dict: created_at from the object, or the clock when absent.  now is
\* the value line 42 reads; the value Task.__init__ read (line 27) is overwritten.
from_dict(data, now) ==
    [Task(data.id, data.description, data.completed, now)
        EXCEPT !.created_at = IF "created_at" \in DOMAIN data
                              THEN data.created_at ELSE now]

\* ---------------------------------------------------------------- file

Absent == [kind |-> "absent", data |-> <<>>]

\* exists, but open/json.load raises (empty, truncated or otherwise not JSON)
Unreadable == [kind |-> "unreadable", data |-> <<>>]

\* exists and json.load returns this list of objects
ArrayFile(objs) == [kind |-> "array", data |-> objs]

\* how one save_tasks call ends: written in full, open() raised (file as it
\* was), or a write raised after open() truncated the file
SaveOutcomes == {"ok", "open_fails", "write_fails"}

\* TaskManager.save_tasks with the try/except removed: the error propagates
save_tasks_unguarded(ts, d, outcome) ==
    IF outcome = "ok"
    THEN [disk |-> ArrayFile([i \in 1..Len(ts) |-> to_dict(ts[i])]),
          reported |-> FALSE, raised |-> FALSE]
    ELSE [disk |-> IF outcome = "open_fails" THEN d ELSE Unreadable,
          reported |-> FALSE, raised |-> TRUE]

\* TaskManager.save_tasks dumping all but the last task
save_tasks_drop_last(ts, d, outcome) ==
    IF outcome = "ok"
    THEN [disk |-> ArrayFile([i \in 1..(Len(ts) - 1) |-> to_dict(ts[i])]),
          reported |-> FALSE, raised |-> FALSE]
    ELSE [disk |-> IF outcome = "open_fails" THEN d ELSE Unreadable,
          reported |-> TRUE, raised |-> FALSE]

\* TaskManager.save_tasks: the whole list, in order, overwrites the file;
\* any exception is printed and swallowed
save_tasks(ts, d, outcome) ==
    IF outcome = "ok"
    THEN [disk |-> ArrayFile([i \in 1..Len(ts) |-> to_dict(ts[i])]),
          reported |-> FALSE, raised |-> FALSE]
    ELSE [disk |-> IF outcome = "open_fails" THEN d ELSE Unreadable,
          reported |-> TRUE, raised |-> FALSE]

\* max(task.id for task in tasks), for int ids
MaxIdOf(ts) ==
    CHOOSE m \in {ts[i].id.val : i \in 1..Len(ts)} :
        \A j \in 1..Len(ts) : ts[j].id.val <= m

\* whether max(...) + 1 raises TypeError: some id is not an int
max_raises(ts) == \E i \in 1..Len(ts) : ts[i].id.type # "int"

\* the indices of the objects for which data.get('created_at', ...) falls back
\* on the clock
NoCreatedAt(objs) == {i \in 1..Len(objs) : "created_at" \notin DOMAIN objs[i]}

\* TaskManager.load_tasks restarting the counter at len(tasks) + 1
load_tasks_count(ts, nid, d, nows) ==
    IF d.kind = "absent"
    THEN [tasks |-> ts, next_id |-> nid, stamps |-> <<>>,
          reported |-> FALSE, raised |-> FALSE]
    ELSE IF d.kind = "unreadable"
            \/ \E i \in 1..Len(d.data) : from_dict_raises(d.data[i])
    THEN [tasks |-> ts, next_id |-> nid, stamps |-> <<>>,
          reported |-> TRUE, raised |-> FALSE]
    ELSE LET loaded == [i \in 1..Len(d.data) |-> from_dict(d.data[i], nows[i])]
             taken == [i \in NoCreatedAt(d.data) |-> nows[i]]
         IN  IF loaded = <<>>
             THEN [tasks |-> loaded, next_id |-> nid, stamps |-> taken,
                   reported |-> FALSE, raised |-> FALSE]
             ELSE IF max_raises(loaded)
             THEN [tasks |-> loaded, next_id |-> nid, stamps |-> taken,
                   reported |-> TRUE, raised |-> FALSE]
             ELSE [tasks |-> loaded, next_id |-> Len(loaded) + 1, stamps |-> taken,
                   reported |-> FALSE, raised |-> FALSE]

\* TaskManager.load_tasks taking the last task's id, not the largest, plus one
load_tasks_last(ts, nid, d, nows) ==
    IF d.kind = "absent"
    THEN [tasks |-> ts, next_id |-> nid, stamps |-> <<>>,
          reported |-> FALSE, raised |-> FALSE]
    ELSE IF d.kind = "unreadable"
            \/ \E i \in 1..Len(d.data) : from_dict_raises(d.data[i])
    THEN [tasks |-> ts, next_id |-> nid, stamps |-> <<>>,
          reported |-> TRUE, raised |-> FALSE]
    ELSE LET loaded == [i \in 1..Len(d.data) |-> from_dict(d.data[i], nows[i])]
             taken == [i \in NoCreatedAt(d.data) |-> nows[i]]
         IN  IF loaded = <<>>
             THEN [tasks |-> loaded, next_id |-> nid, stamps |-> taken,
                   reported |-> FALSE, raised |-> FALSE]
             ELSE IF max_raises(loaded)
             THEN [tasks |-> loaded, next_id |-> nid, stamps |-> taken,
                   reported |-> TRUE, raised |-> FALSE]
             ELSE [tasks |-> loaded, next_id |-> loaded[Len(loaded)].id.val + 1, stamps |-> taken,
                   reported |-> FALSE, raised |-> FALSE]

\* load_tasks recomputing next_id as max(...) without the + 1
load_tasks_max(ts, nid, d, nows) ==
    IF d.kind = "absent"
    THEN [tasks |-> ts, next_id |-> nid, stamps |-> <<>>,
          reported |-> FALSE, raised |-> FALSE]
    ELSE IF d.kind = "unreadable"
            \/ \E i \in 1..Len(d.data) : from_dict_raises(d.data[i])
    THEN [tasks |-> ts, next_id |-> nid, stamps |-> <<>>,
          reported |-> TRUE, raised |-> FALSE]
    ELSE LET loaded == [i \in 1..Len(d.data) |-> from_dict(d.data[i], nows[i])]
             taken == [i \in NoCreatedAt(d.data) |-> nows[i]]
         IN  IF loaded = <<>>
             THEN [tasks |-> loaded, next_id |-> nid, stamps |-> taken,
                   reported |-> FALSE, raised |-> FALSE]
             ELSE IF max_raises(loaded)
             THEN [tasks |-> loaded, next_id |-> nid, stamps |-> taken,
                   reported |-> TRUE, raised |-> FALSE]
             ELSE [tasks |-> loaded, next_id |-> MaxIdOf(loaded), stamps |-> taken,
                   reported |-> FALSE, raised |-> FALSE]

\* TaskManager.load_tasks on a store holding ts and nid, over the file d; nows[i]
\* is the clock value from_dict reads for the i-th object.  An absent file, or
\* an exception before the assignment of self.tasks (line 107), leaves the
\* store as it was; the assignment happens before max(...) + 1 (line 109) can
\* raise, so an error there keeps the loaded list and the old next_id, as
\* does an empty list.  stamps: the clock values that became a created_at.
load_tasks(ts, nid, d, nows) ==
    IF d.kind = "absent"
    THEN [tasks |-> ts, next_id |-> nid, stamps |-> <<>>,
          reported |-> FALSE, raised |-> FALSE]
    ELSE IF d.kind = "unreadable"
            \/ \E i \in 1..Len(d.data) : from_dict_raises(d.data[i])
    THEN [tasks |-> ts, next_id |-> nid, stamps |-> <<>>,
          reported |-> TRUE, raised |-> FALSE]
    ELSE LET loaded == [i \in 1..Len(d.data) |-> from_dict(d.data[i], nows[i])]
             taken == [i \in NoCreatedAt(d.data) |-> nows[i]]
         IN  IF loaded = <<>>
             THEN [tasks |-> loaded, next_id |-> nid, stamps |-> taken,
                   reported |-> FALSE, raised |-> FALSE]
             ELSE IF max_raises(loaded)
             THEN [tasks |-> loaded, next_id |-> nid, stamps |-> taken,
                   reported |-> TRUE, raised |-> FALSE]
             ELSE [tasks |-> loaded, next_id |-> MaxIdOf(loaded) + 1, stamps |-> taken,
                   reported |-> FALSE, raised |-> FALSE]

\* ---------------------------------------------------------------- store

\* index of the first task whose id equals task_id, 0 when there is none
FirstMatch(ts, task_id) ==
    IF \E i \in 1..Len(ts) : IdEq(ts[i].id, task_id)
    THEN CHOOSE i \in 1..Len(ts) :
            /\ IdEq(ts[i].id, task_id)
            /\ \A j \in 1..(i - 1) : ~ IdEq(ts[j].id, task_id)
    ELSE 0

\* del self.tasks[i]
RemoveAt(ts, i) == SubSeq(ts, 1, i - 1) \o SubSeq(ts, i + 1, Len(ts))

\* TaskManager.add_task without self.next_id += 1
add_task_no_increment(ts, nid, description, now) ==
    LET task == Task(IntVal(nid), description, FALSE, now)
    IN  [tasks |-> Append(ts, task), next_id |-> nid,
         ret |-> task, save |-> TRUE]

\* TaskManager.add_task reusing the smallest id not in the collection
add_task_reuse(ts, nid, description, now) ==
    LET free == CHOOSE n \in 1..(Len(ts) + 1) :
                    /\ \A i \in 1..Len(ts) : ~ IdEq(ts[i].id, n)
                    /\ \A m \in 1..(n - 1) : \E i \in 1..Len(ts) : IdEq(ts[i].id, m)
        task == Task(IntVal(free), description, FALSE, now)
    IN  [tasks |-> Append(ts, task), next_id |-> nid + 1,
         ret |-> task, save |-> TRUE]

\* TaskManager.add_task, up to the call of save_tasks
add_task(ts, nid, description, now) ==
    LET task == Task(IntVal(nid), description, FALSE, now)
    IN  [tasks |-> Append(ts, task), next_id |-> nid + 1,
         ret |-> task, save |-> TRUE]

\* TaskManager.list_tasks keeping the completed tasks when asked for the pending
list_tasks_completed(ts, show_completed) ==
    IF show_completed THEN ts ELSE SelectSeq(ts, LAMBDA t : t.completed)

\* TaskManager.list_tasks
list_tasks(ts, show_completed) ==
    IF show_completed THEN ts ELSE SelectSeq(ts, LAMBDA t : ~ t.completed)

\* TaskManager.complete_task saving on the not-found path too
complete_task_always_saves(ts, task_id) ==
    LET i == FirstMatch(ts, task_id)
    IN  IF i = 0
        THEN [tasks |-> ts, ret |-> FALSE, save |-> TRUE]
        ELSE [tasks |-> [ts EXCEPT ![i].completed = TRUE],
              ret |-> TRUE, save |-> TRUE]

\* TaskManager.complete_task flipping the flag instead of setting it
complete_task_toggle(ts, task_id) ==
    LET i == FirstMatch(ts, task_id)
    IN  IF i = 0
        THEN [tasks |-> ts, ret |-> FALSE, save |-> FALSE]
        ELSE [tasks |-> [ts EXCEPT ![i].completed = ~ ts[i].completed],
              ret |-> TRUE, save |-> TRUE]

\* TaskManager.complete_task without the return inside the loop: every task
\* with the id is marked
complete_task_all(ts, task_id) ==
    IF FirstMatch(ts, task_id) = 0
    THEN [tasks |-> ts, ret |-> FALSE, save |-> FALSE]
    ELSE [tasks |-> [i \in 1..Len(ts) |->
                        IF IdEq(ts[i].id, task_id)
                        THEN [ts[i] EXCEPT !.completed = TRUE] ELSE ts[i]],
          ret |-> TRUE, save |-> TRUE]

\* TaskManager.complete_task, up to the call of save_tasks
complete_task(ts, task_id) ==
    LET i == FirstMatch(ts, task_id)
    IN  IF i = 0
        THEN [tasks |-> ts, ret |-> FALSE, save |-> FALSE]
        ELSE [tasks |-> [ts EXCEPT ![i].completed = TRUE],
              ret |-> TRUE, save |-> TRUE]

\* TaskManager.delete_task dropping the last task when the id is not found
delete_task_pops(ts, task_id) ==
    LET i == FirstMatch(ts, task_id)
    IN  IF i = 0
        THEN [tasks |-> SubSeq(ts, 1, Len(ts) - 1), ret |-> FALSE, save |-> FALSE]
        ELSE [tasks |-> RemoveAt(ts, i), ret |-> TRUE, save |-> TRUE]

\* TaskManager.delete_task filtering out every task with the id
delete_task_all(ts, task_id) ==
    IF FirstMatch(ts, task_id) = 0
    THEN [tasks |-> ts, ret |-> FALSE, save |-> FALSE]
    ELSE [tasks |-> SelectSeq(ts, LAMBDA t : ~ IdEq(t.id, task_id)),
          ret |-> TRUE, save |-> TRUE]

\* TaskManager.delete_task, up to the call of save_tasks
delete_task(ts, task_id) ==
    LET i == FirstMatch(ts, task_id)
    IN  IF i = 0
        THEN [tasks |-> ts, ret |-> FALSE, save |-> FALSE]
        ELSE [tasks |-> RemoveAt(ts, i), ret |-> TRUE, save |-> TRUE]

\* ---------------------------------------------------------------- state

VARIABLES
    tasks,      \* self.tasks
    next_id,    \* self.next_id
    disk,       \* the file at self.filename
    stamps,     \* the clock values the last call made a created_at, by index
    op,         \* the last call: "construct", "add", "list", "complete",
                \* "delete", or a direct "load" or "save"
    arg,        \* the task_id it was given, 0 - 1 when it takes none
    ret,        \* what it returned: [bool, tasks]
    saves,      \* how many times it called save_tasks
    saveOk,     \* whether that save_tasks wrote the file in full
    reported,   \* whether it printed an "Error ..." line
    raised,     \* whether an exception reached its caller
    fresh,      \* this store was constructed over an absent file
    allSaved,   \* every save_tasks call of this store wrote the file in full
    nAdds,      \* add_task calls on this store
    deleted,    \* delete_task was called on this store
    issued,     \* ids add_task returned on this store
    everIssued  \* ids add_task returned on any store over this file

vars == <<tasks, next_id, disk, stamps, op, arg, ret, saves, saveOk, reported,
          raised, fresh, allSaved, nAdds, deleted, issued, everIssued>>

NoArg == 0 - 1

\* the clock values from_dict reads during a load of objs, one for each object.
\* For an object that has created_at the value read is dropped (line 42 keeps
\* the object's), so a single value stands for it.
LoadClocks(objs) ==
    { nows \in [1..Len(objs) -> Times] :
        \A i \in 1..Len(objs) : "created_at" \in DOMAIN objs[i] => nows[i] = 0 }

RetBool(b) == [bool |-> b, tasks |-> <<>>]
RetTasks(ts) == [bool |-> FALSE, tasks |-> ts]

\* TaskManager.__init__ over the file d, the clock reading nows during the load
Constructed(d, nows) ==
    LET l == load_tasks(<<>>, 1, d, nows)
    IN  /\ tasks = l.tasks
        /\ next_id = l.next_id
        /\ disk = d
        /\ stamps = l.stamps
        /\ op = "construct"
        /\ arg = NoArg
        /\ ret = RetBool(FALSE)
        /\ saves = 0
        /\ saveOk = TRUE
        /\ reported = l.reported
        /\ raised = l.raised
        /\ fresh = (d.kind = "absent")
        /\ allSaved = TRUE
        /\ nAdds = 0
        /\ deleted = FALSE
        /\ issued = {}

\* the first store, over a file that does not exist yet
Init ==
    /\ Constructed(Absent, <<>>)
    /\ everIssued = {}

\* a later TaskManager(filename) over the same file (the next run of the CLI)
Construct(nows) ==
    LET l == load_tasks(<<>>, 1, disk, nows)
    IN  /\ tasks' = l.tasks
        /\ next_id' = l.next_id
        /\ stamps' = l.stamps
        /\ op' = "construct"
        /\ arg' = NoArg
        /\ ret' = RetBool(FALSE)
        /\ saves' = 0
        /\ saveOk' = TRUE
        /\ reported' = l.reported
        /\ raised' = l.raised
        /\ fresh' = (disk.kind = "absent")
        /\ allSaved' = TRUE
        /\ nAdds' = 0
        /\ deleted' = FALSE
        /\ issued' = {}
        /\ UNCHANGED <<disk, everIssued>>

\* self.save_tasks() called before the change of self.tasks instead of after:
\* the file gets the collection as it was
Persist_stale(ts, doSave, outcome) ==
    LET s == save_tasks(tasks, disk, outcome)
    IN  IF doSave
        THEN /\ disk' = s.disk
             /\ saves' = 1
             /\ saveOk' = (outcome = "ok")
             /\ reported' = s.reported
             /\ raised' = s.raised
             /\ allSaved' = (allSaved /\ outcome = "ok")
        ELSE /\ disk' = disk
             /\ saves' = 0
             /\ saveOk' = TRUE
             /\ reported' = FALSE
             /\ raised' = FALSE
             /\ allSaved' = allSaved

\* the effect of the trailing self.save_tasks() of a mutating call, when made
Persist(ts, doSave, outcome) ==
    LET s == save_tasks(ts, disk, outcome)
    IN  IF doSave
        THEN /\ disk' = s.disk
             /\ saves' = 1
             /\ saveOk' = (outcome = "ok")
             /\ reported' = s.reported
             /\ raised' = s.raised
             /\ allSaved' = (allSaved /\ outcome = "ok")
        ELSE /\ disk' = disk
             /\ saves' = 0
             /\ saveOk' = TRUE
             /\ reported' = FALSE
             /\ raised' = FALSE
             /\ allSaved' = allSaved

\* manager.add_task(description), called at time now
AddTask(description, now, outcome) ==
    LET r == add_task(tasks, next_id, description, now)
    IN  /\ next_id <= MaxId
        /\ nAdds < MaxId
        /\ tasks' = r.tasks
        /\ next_id' = r.next_id
        /\ stamps' = [i \in {Len(r.tasks)} |-> now]
        /\ Persist(r.tasks, r.save, outcome)
        /\ op' = "add"
        /\ arg' = NoArg
        /\ ret' = IF raised' THEN RetTasks(<<>>) ELSE RetTasks(<<r.ret>>)
        /\ nAdds' = nAdds + 1
        /\ issued' = issued \cup {r.ret.id.val}
        /\ everIssued' = everIssued \cup {r.ret.id.val}
        /\ UNCHANGED <<fresh, deleted>>

\* manager.list_tasks(show_completed)
ListTasks(show_completed) ==
    /\ op' = "list"
    /\ arg' = NoArg
    /\ ret' = RetTasks(list_tasks(tasks, show_completed))
    /\ saves' = 0
    /\ saveOk' = TRUE
    /\ reported' = FALSE
    /\ raised' = FALSE
    /\ stamps' = <<>>
    /\ UNCHANGED <<tasks, next_id, disk, fresh, allSaved,
                   nAdds, deleted, issued, everIssued>>

\* manager.complete_task(task_id)
CompleteTask(task_id, outcome) ==
    LET r == complete_task(tasks, task_id)
    IN  /\ tasks' = r.tasks
        /\ Persist(r.tasks, r.save, outcome)
        /\ op' = "complete"
        /\ arg' = task_id
        /\ ret' = IF raised' THEN RetTasks(<<>>) ELSE RetBool(r.ret)
        /\ stamps' = <<>>
        /\ UNCHANGED <<next_id, fresh, nAdds, deleted, issued, everIssued>>

\* manager.delete_task(task_id)
DeleteTask(task_id, outcome) ==
    LET r == delete_task(tasks, task_id)
    IN  /\ tasks' = r.tasks
        /\ Persist(r.tasks, r.save, outcome)
        /\ op' = "delete"
        /\ arg' = task_id
        /\ ret' = IF raised' THEN RetTasks(<<>>) ELSE RetBool(r.ret)
        /\ deleted' = TRUE
        /\ stamps' = <<>>
        /\ UNCHANGED <<next_id, fresh, nAdds, issued, everIssued>>

\* manager.load_tasks() called on the store as it is (__init__ is not the only
\* caller the class allows)
LoadTasks(nows) ==
    LET l == load_tasks(tasks, next_id, disk, nows)
    IN  /\ tasks' = l.tasks
        /\ next_id' = l.next_id
        /\ stamps' = l.stamps
        /\ op' = "load"
        /\ arg' = NoArg
        /\ ret' = RetBool(FALSE)
        /\ saves' = 0
        /\ saveOk' = TRUE
        /\ reported' = l.reported
        /\ raised' = l.raised
        /\ UNCHANGED <<disk, fresh, allSaved, nAdds, deleted, issued, everIssued>>

\* manager.save_tasks() called on the store as it is
SaveTasks(outcome) ==
    /\ Persist(tasks, TRUE, outcome)
    /\ op' = "save"
    /\ arg' = NoArg
    /\ ret' = RetBool(FALSE)
    /\ stamps' = <<>>
    /\ UNCHANGED <<tasks, next_id, fresh, nAdds, deleted, issued, everIssued>>

Next ==
    \/ \E description \in Descriptions, now \in Times,
          outcome \in SaveOutcomes : AddTask(description, now, outcome)
    \/ \E show_completed \in BOOLEAN : ListTasks(show_completed)
    \/ \E task_id \in IdArgs, outcome \in SaveOutcomes : CompleteTask(task_id, outcome)
    \/ \E task_id \in IdArgs, outcome \in SaveOutcomes : DeleteTask(task_id, outcome)
    \/ \E nows \in LoadClocks(disk.data) : Construct(nows)

Spec == Init /\ [][Next]_vars

\* the same calls when every save_tasks call writes the file in full
NextOk ==
    \/ \E description \in Descriptions, now \in Times :
          AddTask(description, now, "ok")
    \/ \E show_completed \in BOOLEAN : ListTasks(show_completed)
    \/ \E task_id \in IdArgs : CompleteTask(task_id, "ok")
    \/ \E task_id \in IdArgs : DeleteTask(task_id, "ok")
    \/ \E nows \in LoadClocks(disk.data) : Construct(nows)

SpecOk == Init /\ [][NextOk]_vars

\* ------------------------------------------------- files of other origin

\* a JSON object as the store writes it
Obj(n, description, completed, created) ==
    [id |-> IntVal(n), description |-> description,
     completed |-> completed, created_at |-> created]

\* objects of a backing file that no store of this model wrote (hand-edited,
\* written by another version, or damaged): well-formed ones with any id,
\* two without created_at, one with "id": null, one without the id key
ForeignObjs ==
    { Obj(n, "a", FALSE, 0) : n \in 1..MaxId }
    \cup { Obj(n, "b", TRUE, 0) : n \in 1..MaxId }
    \cup { [id |-> IntVal(1), description |-> "b", completed |-> FALSE],
           [id |-> IntVal(2), description |-> "a", completed |-> TRUE],
           [Obj(1, "b", FALSE, 0) EXCEPT !.id = NoneVal],
           [description |-> "b", completed |-> FALSE, created_at |-> 0] }

\* the files the first store may find
ForeignFiles ==
    { Absent, Unreadable }
    \cup { ArrayFile(objs) :
             objs \in UNION { [1..n -> ForeignObjs] : n \in 0..MaxForeignLen } }

\* the first store, over any of these files
InitLoad ==
    /\ \E d \in ForeignFiles :
          \E nows \in LoadClocks(d.data) : Constructed(d, nows)
    /\ everIssued = {}

\* hydration alone: stores constructed, one after the other, over a file
NextLoad == \E nows \in LoadClocks(disk.data) : Construct(nows)

SpecLoad == InitLoad /\ [][NextLoad]_vars

\* files in which two objects carry the same id (the store never checks ids
\* on load), the first of them pending or already completed
DupFiles ==
    { ArrayFile(<<Obj(1, "a", FALSE, 0), Obj(1, "b", FALSE, 0)>>),
      ArrayFile(<<Obj(1, "a", TRUE, 0), Obj(1, "b", FALSE, 0)>>) }

\* the first store, over a file that does not exist or one with a repeated id
InitDup ==
    /\ \E d \in DupFiles \cup {Absent} :
          \E nows \in LoadClocks(d.data) : Constructed(d, nows)
    /\ everIssued = {}

\* the calls of one store, with any save outcome
NextCalls ==
    \/ \E description \in Descriptions, now \in Times,
          outcome \in SaveOutcomes : AddTask(description, now, outcome)
    \/ \E show_completed \in BOOLEAN : ListTasks(show_completed)
    \/ \E task_id \in IdArgs, outcome \in SaveOutcomes : CompleteTask(task_id, outcome)
    \/ \E task_id \in IdArgs, outcome \in SaveOutcomes : DeleteTask(task_id, outcome)

\* one store over such a file
SpecDup == InitDup /\ [][NextCalls]_vars

\* a store over a file of any origin that completes and deletes tasks, and the
\* stores constructed after it: every loaded Task is written by to_dict and
\* read back by from_dict
NextRewrite ==
    \/ \E task_id \in IdArgs, outcome \in SaveOutcomes : CompleteTask(task_id, outcome)
    \/ \E task_id \in IdArgs, outcome \in SaveOutcomes : DeleteTask(task_id, outcome)
    \/ \E nows \in LoadClocks(disk.data) : Construct(nows)

SpecRewrite == InitLoad /\ [][NextRewrite]_vars

\* one store and every public method of it: the four calls, and load_tasks and
\* save_tasks called directly
NextApi ==
    \/ \E description \in Descriptions, now \in Times,
          outcome \in SaveOutcomes : AddTask(description, now, outcome)
    \/ \E show_completed \in BOOLEAN : ListTasks(show_completed)
    \/ \E task_id \in IdArgs, outcome \in SaveOutcomes : CompleteTask(task_id, outcome)
    \/ \E task_id \in IdArgs, outcome \in SaveOutcomes : DeleteTask(task_id, outcome)
    \/ \E nows \in LoadClocks(disk.data) : LoadTasks(nows)
    \/ \E outcome \in SaveOutcomes : SaveTasks(outcome)

SpecApi == Init /\ [][NextApi]_vars

\* ---------------------------------------------------------------- claims

\* what json.dump writes for a collection
Serialized(ts) == ArrayFile([i \in 1..Len(ts) |-> to_dict(ts[i])])

\* no task of ts has the id n
NoMatch(ts, n) == \A i \in 1..Len(ts) : ~ IdEq(ts[i].id, n)

\* ts without its i-th element
Without(ts, i) ==
    [j \in 1..(Len(ts) - 1) |-> IF j < i THEN ts[j] ELSE ts[j + 1]]

\* the same tasks in the same order: id, description and completed agree
SameTasks(a, b) ==
    /\ Len(a) = Len(b)
    /\ \A i \in 1..Len(a) :
        /\ a[i].id = b[i].id
        /\ a[i].description = b[i].description
        /\ a[i].completed = b[i].completed

\* C1: starting from an absent file, whatever the calls, the save failures and
\* the reconstructions, no two tasks of the in-memory collection share an id.
C1_UniqueIds ==
    \A i, j \in 1..Len(tasks) : i # j => tasks[i].id # tasks[j].id

\* C1: a reconstructed store, after a deletion on an earlier one, holds two tasks
\* the second of which it added itself.
C1_Witness ==
    /\ op = "add"
    /\ ~ fresh
    /\ nAdds = 1
    /\ Len(tasks) = 2
    /\ everIssued = {1, 2}

\* C2: an id add_task returned is never returned again by a later add_task over
\* the same file, also across deletions and reconstructions.
C2_IdNeverReturnedAgain ==
    [][op' = "add" =>
         \A i \in 1..Len(ret'.tasks) : ret'.tasks[i].id.val \notin everIssued]_vars

\* C3: on a store constructed over an absent file and with no delete_task call so
\* far, the k-th add_task returns the task with id k, pending, and that task is
\* the last element of the collection.
C3_KthAddReturnsK ==
    (op = "add" /\ fresh /\ ~ deleted) =>
        /\ ~ raised
        /\ Len(ret.tasks) = 1
        /\ ret.tasks[1].id = IntVal(nAdds)
        /\ ret.tasks[1].completed = FALSE
        /\ tasks # <<>>
        /\ tasks[Len(tasks)] = ret.tasks[1]

\* C3: the second add_task of such a store has returned, after a completion.
C3_Witness ==
    /\ op = "add"
    /\ fresh
    /\ ~ deleted
    /\ nAdds = 2
    /\ Len(tasks) = 2
    /\ tasks[1].completed

\* C4: within one store, delete_task (found or not) leaves next_id as it was,
\* no call lowers next_id, and add_task returns an id greater than every id the
\* store issued before.
C4_DeleteKeepsNextId ==
    [][/\ op' = "delete" => next_id' = next_id
       /\ op' # "construct" => next_id' >= next_id
       /\ op' = "add" =>
            /\ Len(ret'.tasks) = 1
            /\ \A x \in issued : ret'.tasks[1].id.val > x]_vars

\* C4: add, delete of that task, add: the second add returned 2, not 1, and the
\* collection holds the task 2 alone.
C4_Witness ==
    /\ op = "add"
    /\ deleted
    /\ issued = {1, 2}
    /\ Len(tasks) = 1
    /\ tasks[1].id = IntVal(2)
    /\ next_id = 3

\* C5: when every save_tasks call of a store wrote the file in full, a second
\* store constructed over the file holds the same tasks in the same order, with
\* the same id, description and completed.
C5_RoundTrip ==
    [][(op' = "construct" /\ allSaved) => SameTasks(tasks', tasks)]_vars

\* C5: a second store has loaded two tasks, the first completed, the second not,
\* from the file the first store wrote.
C5_Witness ==
    /\ op = "construct"
    /\ disk = Serialized(tasks)
    /\ Len(tasks) = 2
    /\ tasks[1].completed
    /\ ~ tasks[2].completed
    /\ tasks[1].description # tasks[2].description

\* C6: when save_tasks fails inside add_task, complete_task or delete_task, no
\* exception reaches the caller, the call returns its success value and the
\* change of the collection is kept.
C6_SaveFailureKeepsMutation ==
    [][(saves' = 1 /\ ~ saveOk') =>
         /\ ~ raised'
         /\ reported'
         /\ op' \in {"add", "complete", "delete"}
         /\ op' = "add" =>
              /\ Len(tasks') = Len(tasks) + 1
              /\ SubSeq(tasks', 1, Len(tasks)) = tasks
              /\ ret' = RetTasks(<<tasks'[Len(tasks')]>>)
              /\ tasks'[Len(tasks')].id = IntVal(next_id)
              /\ next_id' = next_id + 1
         /\ op' = "complete" =>
              /\ ret' = RetBool(TRUE)
              /\ \E i \in 1..Len(tasks) :
                    /\ IdEq(tasks[i].id, arg')
                    /\ tasks' = [tasks EXCEPT ![i].completed = TRUE]
         /\ op' = "delete" =>
              /\ ret' = RetBool(TRUE)
              /\ \E i \in 1..Len(tasks) :
                    /\ IdEq(tasks[i].id, arg')
                    /\ tasks' = Without(tasks, i)]_vars

\* C6: add_task returned its task although the save failed, and the file does
\* not hold what the collection holds.
C6_Witness ==
    /\ op = "add"
    /\ saves = 1
    /\ ~ saveOk
    /\ Len(ret.tasks) = 1
    /\ Len(tasks) = 2
    /\ disk # Serialized(tasks)

\* C7: whenever hydration reports a failure, no exception reaches the caller and
\* the constructed store has an empty collection and next_id = 1.
C7_FailedLoadLeavesEmpty ==
    (op = "construct" /\ reported) =>
        (~ raised /\ tasks = <<>> /\ next_id = 1)

\* the JSON object obj has the four keys, with the values of the task t
HoldsTask(obj, t) ==
    /\ DOMAIN obj = {"id", "description", "completed", "created_at"}
    /\ obj.id = t.id
    /\ obj.description = t.description
    /\ obj.completed = t.completed
    /\ obj.created_at = t.created_at

\* the array objs is, object by object, the tasks ts
HoldsTasks(objs, ts) ==
    /\ Len(objs) = Len(ts)
    /\ \A i \in 1..Len(ts) : HoldsTask(objs[i], ts[i])

\* every object of the array has the three required keys and an int id
WellFormed(d) ==
    /\ d.kind = "array"
    /\ \A i \in 1..Len(d.data) :
        /\ {"id", "description", "completed"} \subseteq DOMAIN d.data[i]
        /\ d.data[i].id.type = "int"

\* what a construction over the file d gives: the collection ts, the counter
\* nid, and rep, whether a failure was printed.  A file that parses is a JSON
\* array whose objects all have the keys id, description and completed and an
\* integer id; over any other array the load prints a failure.
Hydrated(d, ts, nid, rep) ==
    /\ d.kind = "absent" => (ts = <<>> /\ nid = 1 /\ ~ rep)
    /\ WellFormed(d) =>
         /\ ~ rep
         /\ SameTasks(ts, d.data)
         /\ d.data = <<>> => nid = 1
         /\ d.data # <<>> =>
              /\ \E i \in 1..Len(d.data) : d.data[i].id.val = nid - 1
              /\ \A i \in 1..Len(d.data) : d.data[i].id.val <= nid - 1
    /\ (d.kind = "array" /\ ~ WellFormed(d)) => rep

\* C8: construction does not create or write the file; over an absent file it
\* gives an empty collection and next_id = 1; over a file that parses it gives
\* the records as tasks in file order and next_id = max id + 1, or 1 for [].
\* This holds of the first store over any file and of every store constructed
\* later, whatever the store before it held.
C8_Hydrate ==
    /\ [](op = "construct" =>
            (saves = 0 /\ Hydrated(disk, tasks, next_id, reported)))
    /\ [][op' = "construct" =>
            /\ disk' = disk
            /\ saves' = 0
            /\ Hydrated(disk, tasks', next_id', reported')]_vars

\* C8: a store constructed over a file whose ids are 2 then 1 holds them in that
\* order and will issue 3.  The file is one an earlier store wrote when it
\* completed task 1 (no file of other origin holds a completed "a" with
\* created_at), so this construction replaced that store's state.
C8_Witness ==
    /\ op = "construct"
    /\ WellFormed(disk)
    /\ Len(tasks) = 2
    /\ tasks[1].id = IntVal(2)
    /\ tasks[2].id = IntVal(1)
    /\ tasks[2].description = "a"
    /\ tasks[2].completed
    /\ HoldsTasks(disk.data, tasks)
    /\ next_id = 3

\* C9: complete_task with an id no task has returns False, leaves the collection
\* and next_id as they were and does not write the file.
C9_CompleteNotFound ==
    [][(op' = "complete" /\ NoMatch(tasks, arg')) =>
         /\ ret' = RetBool(FALSE)
         /\ ~ raised'
         /\ tasks' = tasks
         /\ next_id' = next_id
         /\ disk' = disk
         /\ saves' = 0]_vars

\* C9: complete_task(1) returned False on a collection that holds task 2 alone,
\* task 1 having been deleted.
C9_Witness ==
    /\ op = "complete"
    /\ arg = 1
    /\ ret = RetBool(FALSE)
    /\ saves = 0
    /\ Len(tasks) = 1
    /\ tasks[1].id = IntVal(2)

\* C10: delete_task with an id no task has returns False, leaves the collection
\* and next_id as they were and does not write the file.
C10_DeleteNotFound ==
    [][(op' = "delete" /\ NoMatch(tasks, arg')) =>
         /\ ret' = RetBool(FALSE)
         /\ ~ raised'
         /\ tasks' = tasks
         /\ next_id' = next_id
         /\ disk' = disk
         /\ saves' = 0]_vars

\* C10: delete_task(0) returned False on a collection of two tasks.
C10_Witness ==
    /\ op = "delete"
    /\ arg = 0
    /\ ret = RetBool(FALSE)
    /\ saves = 0
    /\ Len(tasks) = 2
    /\ disk = Serialized(tasks)

\* the tasks of ts that are not completed, in the order of ts
RECURSIVE PendingOf(_)
PendingOf(ts) ==
    IF ts = <<>> THEN <<>>
    ELSE IF ts[1].completed THEN PendingOf(Tail(ts))
    ELSE <<ts[1]>> \o PendingOf(Tail(ts))

\* C11: list_tasks(True) returns the whole collection in its order,
\* list_tasks(False) exactly its pending tasks in the same relative order, and
\* neither changes the collection, next_id or the file.
C11_ListTasks ==
    [][\A show_completed \in BOOLEAN :
         ListTasks(show_completed) =>
            /\ ret'.tasks = IF show_completed THEN tasks ELSE PendingOf(tasks)
            /\ ~ raised'
            /\ tasks' = tasks
            /\ next_id' = next_id
            /\ disk' = disk
            /\ saves' = 0]_vars

\* C11: list_tasks(False) returned the second of two tasks alone, the first
\* being completed.
C11_Witness ==
    /\ op = "list"
    /\ Len(tasks) = 2
    /\ tasks[1].completed
    /\ ~ tasks[2].completed
    /\ ret.tasks = <<tasks[2]>>

\* the least index of ts whose task has the id n (there is one)
FirstWithId(ts, n) ==
    CHOOSE i \in 1..Len(ts) :
        /\ IdEq(ts[i].id, n)
        /\ \A j \in 1..Len(ts) : IdEq(ts[j].id, n) => i <= j

\* C12: complete_task with an id some task has returns True, sets completed on
\* the first task with that id and changes no other task, nor the order, the
\* size or next_id; it calls save_tasks once, which when it succeeds writes the
\* new collection; on an already completed task the collection stays as it was.
C12_CompleteFound ==
    [][(op' = "complete" /\ ~ NoMatch(tasks, arg')) =>
         LET i == FirstWithId(tasks, arg')
         IN  /\ ret' = RetBool(TRUE)
             /\ ~ raised'
             /\ Len(tasks') = Len(tasks)
             /\ tasks'[i] = [tasks[i] EXCEPT !.completed = TRUE]
             /\ \A j \in 1..Len(tasks) : j # i => tasks'[j] = tasks[j]
             /\ next_id' = next_id
             /\ saves' = 1
             /\ saveOk' => disk' = Serialized(tasks')
             /\ tasks[i].completed => tasks' = tasks]_vars

\* C12: complete_task(1) returned True on a collection whose first two tasks
\* both have id 1: the first is completed, the second still pending.
C12_Witness ==
    /\ op = "complete"
    /\ arg = 1
    /\ ret = RetBool(TRUE)
    /\ saves = 1
    /\ Len(tasks) >= 2
    /\ tasks[1].id = tasks[2].id
    /\ tasks[1].completed
    /\ ~ tasks[2].completed

\* C13: delete_task with an id some task has returns True and removes the first
\* task with that id and no other: the rest keep their fields and order,
\* next_id stays, and save_tasks is called once, which when it succeeds writes
\* the remaining collection.
C13_DeleteFound ==
    [][(op' = "delete" /\ ~ NoMatch(tasks, arg')) =>
         LET i == FirstWithId(tasks, arg')
         IN  /\ ret' = RetBool(TRUE)
             /\ ~ raised'
             /\ Len(tasks') = Len(tasks) - 1
             /\ tasks' = Without(tasks, i)
             /\ next_id' = next_id
             /\ saves' = 1
             /\ saveOk' => disk' = Serialized(tasks')]_vars

\* C13: delete_task(1) returned True on a collection of two tasks with id 1 and
\* left the second of them, which the file now holds.
C13_Witness ==
    /\ op = "delete"
    /\ arg = 1
    /\ ret = RetBool(TRUE)
    /\ saves = 1
    /\ Len(tasks) = 1
    /\ tasks[1].id = IntVal(1)
    /\ tasks[1].description = "b"
    /\ disk = Serialized(tasks)

\* C14: a task is pending when add_task returns it, and within one store no
\* add_task, list_tasks, complete_task or delete_task call turns a completed
\* task of the collection back to pending: after the call the task is still
\* completed, or no longer in the collection.
C14_CompletionOneWay ==
    [][op' \in {"add", "list", "complete", "delete"} =>
         /\ op' = "add" =>
              /\ Len(ret'.tasks) = 1
              /\ ~ ret'.tasks[1].completed
              /\ ~ tasks'[Len(tasks')].completed
         /\ \A i \in 1..Len(tasks), j \in 1..Len(tasks') :
              (tasks[i].id = tasks'[j].id /\ tasks[i].completed)
                  => tasks'[j].completed]_vars

\* C14: a store added two tasks and completed one; after the other was deleted
\* the completed one is still there and still completed.
C14_Witness ==
    /\ op = "delete"
    /\ ret = RetBool(TRUE)
    /\ nAdds = 2
    /\ Len(tasks) = 1
    /\ tasks[1].completed

\* C15: a save writes each Task as its four-key mapping, and a load of such a
\* mapping gives the Task back: same id, description, completed and created_at.
\* A mapping without created_at still loads, with the same id, description and
\* completed and, as created_at, the clock value read for it during the load.
C15_TaskRoundTrip ==
    [][/\ (saves' = 1 /\ saveOk') =>
            (disk'.kind = "array" /\ HoldsTasks(disk'.data, tasks'))
       /\ (op' = "construct" /\ disk.kind = "array") =>
            /\ HoldsTasks(disk.data, tasks) => tasks' = tasks
            /\ (\A i \in 1..Len(disk.data) :
                   {"id", "description", "completed"} \subseteq DOMAIN disk.data[i])
               => /\ SameTasks(tasks', disk.data)
                  /\ \A i \in 1..Len(disk.data) :
                        tasks'[i].created_at =
                            IF "created_at" \in DOMAIN disk.data[i]
                            THEN disk.data[i].created_at ELSE stamps'[i]]_vars

\* C15: a store has loaded two tasks from a file whose objects all have the four
\* keys; the first has created_at 1, which no file of other origin holds: it is
\* the time of an earlier load of an object without created_at, written by
\* to_dict and read back.
C15_Witness ==
    /\ op = "construct"
    /\ disk.kind = "array"
    /\ HoldsTasks(disk.data, tasks)
    /\ Len(tasks) = 2
    /\ tasks[1].created_at = 1
    /\ tasks[2].created_at = 0

\* C16: add_task, and complete_task and delete_task when the id is found, call
\* save_tasks exactly once, after the change of the collection; whenever that
\* call succeeds the file is the serialization, in order, of the whole
\* collection as it is after the call, whatever happened to earlier saves.
C16_PersistAfterMutation ==
    [][(\/ op' = "add"
        \/ (op' \in {"complete", "delete"} /\ ~ NoMatch(tasks, arg')))
       => /\ saves' = 1
          /\ saveOk' => (disk'.kind = "array" /\ HoldsTasks(disk'.data, tasks'))]_vars

\* C16: a store one of whose saves failed has completed a task with a save that
\* succeeded: the file holds its two tasks again.
C16_Witness ==
    /\ op = "complete"
    /\ ret = RetBool(TRUE)
    /\ saves = 1
    /\ saveOk
    /\ ~ allSaved
    /\ Len(tasks) = 2
    /\ disk.kind = "array"
    /\ HoldsTasks(disk.data, tasks)

\* C17: in a store whose file was absent at first and has since been written
\* only by the store, next_id is at least 1 and greater than the id of every
\* task held, every id is an integer, and the ids increase strictly along the
\* collection.
C17_NextIdAboveAll ==
    /\ next_id >= 1
    /\ \A i \in 1..Len(tasks) :
          /\ tasks[i].id.type = "int"
          /\ tasks[i].id.val >= 1
          /\ tasks[i].id.val < next_id
    /\ \A i, j \in 1..Len(tasks) :
          i < j => tasks[i].id.val < tasks[j].id.val

\* C17: a store constructed over the file an earlier store wrote, after a
\* deletion left the single task 2 in it: next_id was recomputed as 3.
C17_Witness ==
    /\ op = "construct"
    /\ ~ fresh
    /\ Len(tasks) = 1
    /\ tasks[1].id = IntVal(2)
    /\ next_id = 3

====
